---- MODULE Spec2Model ----
(***************************************************************************)
(* Model of the special-effects engine of src/src/spfx.c: the two effect   *)
(* pools (front/back), the shake simulator with its haptic coupling, and   *)
(* the trail engine.                                                       *)
(*                                                                         *)
(* Numbers.  The C code computes in double precision; the model computes   *)
(* in fixed point:                                                         *)
(*   - effect times (ttl, anim, timer, dt) in 1/TIME_SCALE seconds,        *)
(*   - effect positions in 1/TIME_SCALE length units (velocity in units/s),*)
(*   - shake quantities (position, velocity, force modifier, time) in      *)
(*     thousandths, rounded to nearest after each assignment,              *)
(*   - trail ages in hundredths of a time unit.                            *)
(* C arrays are 0-based; the model keeps the C indices and reads element i *)
(* of a sequence with At(arr, i).                                          *)
(***************************************************************************)
EXTENDS Integers, Sequences, FiniteSets, TLC

VARIABLES
    \* effect catalog and pools
    spfx_effects,        \* SPFX_Base array: sequence of [ttl, anim, sx, sy]
    spfx_stack_front,    \* SPFX array of the front layer
    spfx_stack_back,     \* SPFX array of the back layer
    paused,              \* global pause flag (pause.h)
    \* shake simulator
    shake_set,
    shake_pos,
    shake_vel,
    shake_force_mod,
    shake_force_ang,
    shake_off,
    shake_noise,         \* the noise generator created by spfx_load
    haptic_rumble,       \* haptic effect id, -1 when none was uploaded
    haptic_lastUpdate,
    rumble_age,          \* real time of the frames begun since the device
                         \* was last updated (capped at the update
                         \* interval), -1 before the first update
    gl_view_matrix,      \* translation part of the shared view transform
    \* trail engine (one trail)
    trail_points,        \* trailPoint array: sequence of [p, c, t]
    \* environment / history
    in_frame,            \* TRUE between a spfx_begin and its spfx_end
    ncalls,              \* number of calls made that a bound limits (set by the
                         \* callers in the next-state relations)
    hist                 \* the last call: its name, arguments, pre-state, result

pool_vars  == <<spfx_effects, spfx_stack_front, spfx_stack_back, paused>>
shake_vars == <<shake_set, shake_pos, shake_vel, shake_force_mod,
                shake_force_ang, shake_off>>
hapt_vars  == <<haptic_rumble, haptic_lastUpdate, rumble_age>>
vars == <<spfx_effects, spfx_stack_front, spfx_stack_back, paused,
          shake_set, shake_pos, shake_vel, shake_force_mod, shake_force_ang,
          shake_off, shake_noise, haptic_rumble, haptic_lastUpdate,
          rumble_age, gl_view_matrix, trail_points, in_frame, ncalls, hist>>

-----------------------------------------------------------------------------
(* Bounds of the model *)

\* instances a layer may hold when spfx_add is called
MaxPool == 2
\* calls of the bounded operations (an spfx_add that spawns, spfx_shake,
\* spfx_begin) in one behaviour
MaxCalls == 2
\* points a trail may hold when spfx_trail_grow is called
MaxTrail == 3
\* calls of spfx_shake and spfx_begin in one behaviour of the shake runs
MaxFrames == 4
\* a trail is not aged beyond this age of its oldest point
MaxAge == 5600
\* frames whose dt differs from the regular frame time in the settlement runs
MaxJitter == 1

-----------------------------------------------------------------------------
(* Generic helpers *)

\* element i (0-based, as in C) of an array
At(arr, i) == arr[i + 1]

\* array_size
array_size(arr) == Len(arr)

\* array_erase( &arr, &arr[first], &arr[last] ): erases the half-open range
\* [first, last) (spfx.c:390 erases the single element i with (i, i+1))
array_erase(arr, first, last) ==
    SubSeq(arr, 1, first) \o SubSeq(arr, last + 1, Len(arr))

\* array_push_back / array_grow: the new element goes to the tail
array_push_front(arr, e) == <<e>> \o arr
array_push_back(arr, e) == Append(arr, e)

\* array_back
array_back(arr) == arr[Len(arr)]

\* n/d rounded to nearest (d > 0), the fixed-point image of a double result
Round(n, d) == (2 * n + d) \div (2 * d)

Abs(x) == IF x < 0 THEN -x ELSE x

\* vect_cadd( &v, x, y )
vect_cadd(v, x, y) == <<v[1] + x, v[2] + y>>

\* vectnull( &v )
vectnull == <<0, 0>>

-----------------------------------------------------------------------------
(* Effect catalog *)

\* time ticks per second of the effect timers
TIME_SCALE == 100

\* spfx_base_parse: the name is the node's attribute; anim and ttl are
\* read in ms and converted to seconds; a ttl of 0 (or omitted, the memset
\* default) becomes anim.  sx, sy are the sprite grid of the loaded texture.
spfx_base_parse(name, animMs, ttlMs, sx, sy) ==
    LET anim == (animMs * TIME_SCALE) \div 1000
        ttl  == (ttlMs * TIME_SCALE) \div 1000
    IN  [name |-> name, anim |-> anim,
         ttl |-> IF ttl = 0 THEN anim ELSE ttl, sx |-> sx, sy |-> sy]

\* The data files the model loads: each a list of
\* <<name, animMs, ttlMs, sx, sy>>.  They include a template without ttl,
\* one with ttl /= anim, a degenerate one without anim (kept with a warning
\* by spfx_base_parse), and two templates of the same name.
EffectFiles ==
    { << <<"ExpS", 400, 0, 2, 2>> >>,
      << <<"ExpM", 400, 200, 2, 2>>, <<"ExpM", 200, 200, 2, 1>> >>,
      << <<"EmpS", 0, 200, 1, 1>>, <<"ExpS", 200, 400, 2, 2>> >> }

\* the data file of the runs that do not look at the pools
OneEffect == << <<"ExpS", 400, 0, 2, 2>> >>

RECURSIVE spfx_load_effects(_)
spfx_load_effects(file) ==
    IF file = <<>> THEN <<>>
    ELSE <<spfx_base_parse(file[1][1], file[1][2], file[1][3], file[1][4],
                           file[1][5])>>
         \o spfx_load_effects(Tail(file))

\* what a read past the end of spfx_effects may yield (undefined behaviour)
OutOfBoundsBase == { [anim |-> 0, ttl |-> 0, sx |-> 1, sy |-> 1],
                     [anim |-> 8, ttl |-> 4, sx |-> 1, sy |-> 1],
                     [anim |-> 0, ttl |-> -4, sx |-> 1, sy |-> 1] }

\* spfx_get( name ): the index of the first template called name, or -1
RECURSIVE spfx_get_last(_, _)
spfx_get_last(effects, name) ==
    IF effects = <<>> THEN -1
    ELSE IF effects[Len(effects)].name = name THEN Len(effects) - 1
         ELSE spfx_get_last(SubSeq(effects, 1, Len(effects) - 1), name)

RECURSIVE spfx_get_from(_, _, _)
spfx_get_from(effects, name, i) ==
    IF i >= array_size(effects) THEN -1
    ELSE IF At(effects, i).name = name THEN i
         ELSE spfx_get_from(effects, name, i + 1)

spfx_get(effects, name) == spfx_get_from(effects, name, 0)

\* names the callers look up; the last one is in no data file
LookupNames == {"ExpS", "ExpM", "nonexistent"}

\* RNGF(): a double in [0,1), here in thousandths
RNGF_Draws == {0, 750}

\* layer identifiers of spfx.h
SPFX_LAYER_FRONT == 0
SPFX_LAYER_BACK == 1

\* values array_grow leaves in the fields spfx_add does not set
UninitFrames == {0}

\* velocities and positions the callers pass to spfx_add
AddPos == {0}
AddVel == {0, 3}

\* the <<effect, layer>> pairs the callers pass to spfx_add: every index
\* from -1 to one past the catalog size on the two layers, and an invalid
\* layer
AddCalls(effects) ==
    ((-1 .. array_size(effects) + 1) \X {SPFX_LAYER_FRONT, SPFX_LAYER_BACK})
    \cup {<<0, 2>>}

\* layers the callers pass to spfx_render: the two layers and an invalid one
RenderLayers == {SPFX_LAYER_FRONT, SPFX_LAYER_BACK, 2}

\* frame times passed to spfx_update, in 1/TIME_SCALE s
UpdateDts == {0, 20}

-----------------------------------------------------------------------------
(* History record: the last call made, with what it needs of the pre-state *)

NoCall ==
    [op |-> "init", effect |-> 0, layer |-> 0, rng |-> 0, dt |-> 0,
     real_dt |-> 0, mod |-> 0, front |-> <<>>, back |-> <<>>,
     effects |-> <<>>, points |-> <<>>, ret |-> 0, steps |-> <<>>,
     pos |-> <<0, 0>>, vel |-> <<0, 0>>, force |-> 0, ang |-> 0, off |-> 1,
     timer |-> 0, settled |-> FALSE, view |-> <<0, 0>>, since |-> -1,
     tried |-> 0, name |-> "", drawn |-> <<>>]

\* the pre-state of the pools and the catalog
PoolCall(op) ==
    [NoCall EXCEPT !.op = op, !.front = spfx_stack_front,
                   !.back = spfx_stack_back, !.effects = spfx_effects]

-----------------------------------------------------------------------------
(* Effect pools *)

\* the timer spfx_add gives an instance of template base, for the draw rng
spfx_add_timer_swapped(base, rng) ==
    IF base.ttl # base.anim
    THEN base.anim + (rng * base.ttl) \div 1000
    ELSE base.ttl
spfx_add_timer(base, rng) ==
    IF base.ttl # base.anim
    THEN base.ttl + (rng * base.anim) \div 1000
    ELSE base.ttl

\* the bounds check of spfx_add (spfx.c:318): TRUE when the call is refused
spfx_add_invalid(effect, effects) ==
    (effect < 0) \/ (effect > array_size(effects))

\* the instance spfx_add writes into the grown slot
spfx_new(effect, base, px, py, vx, vy, rng, garbage) ==
    [effect |-> effect, pos |-> <<px, py>>, vel |-> <<vx, vy>>,
     timer |-> spfx_add_timer(base, rng), lastframe |-> garbage]

spfx_add(effect, px, py, vx, vy, layer) ==
    /\ IF spfx_add_invalid(effect, spfx_effects)
          \/ layer \notin {SPFX_LAYER_FRONT, SPFX_LAYER_BACK}
       THEN /\ UNCHANGED <<spfx_stack_front, spfx_stack_back>>
            /\ hist' = [PoolCall("add") EXCEPT !.effect = effect,
                                               !.layer = layer]
       ELSE \E base \in (IF effect < array_size(spfx_effects)
                         THEN {At(spfx_effects, effect)}
                         ELSE OutOfBoundsBase) :
            \E rng \in (IF base.ttl # base.anim THEN RNGF_Draws ELSE {0}) :
            \E garbage \in UninitFrames :
              LET cur == spfx_new(effect, base, px, py, vx, vy, rng, garbage)
              IN  /\ IF layer = SPFX_LAYER_FRONT
                     THEN /\ spfx_stack_front' =
                                array_push_back(spfx_stack_front, cur)
                          /\ UNCHANGED spfx_stack_back
                     ELSE /\ spfx_stack_back' =
                                array_push_back(spfx_stack_back, cur)
                          /\ UNCHANGED spfx_stack_front
                  /\ hist' = [PoolCall("add") EXCEPT !.effect = effect,
                                                     !.layer = layer,
                                                     !.rng = rng]
    /\ UNCHANGED <<spfx_effects, paused, shake_vars, shake_noise, hapt_vars,
                   gl_view_matrix, trail_points, in_frame>>

\* a caller looking up a template by name
spfx_get_call(name) ==
    /\ hist' = [PoolCall("get") EXCEPT !.name = name,
                                       !.ret = spfx_get(spfx_effects, name)]
    /\ UNCHANGED <<pool_vars, shake_vars, shake_noise, hapt_vars,
                   gl_view_matrix, trail_points, in_frame, ncalls>>

\* the frame spfx_render computes for an instance with time left timer of
\* a template base: sx*sy*MIN(1 - fmod(timer, anim)/anim, 1.), truncated.
\* With anim = 0 fmod yields NaN, which the MIN macro turns into 1.; with
\* timer < 0 fmod is negative or zero and MIN caps the time at 1.
spfx_frame(base, timer) ==
    IF base.anim = 0 \/ timer < 0 THEN base.sx * base.sy
    ELSE (base.sx * base.sy * (base.anim - (timer % base.anim)))
            \div base.anim

\* lastframe of the instance sp after spfx_render drew it
spfx_render_frame_always(sp, base, is_paused) == spfx_frame(base, sp.timer)
spfx_render_frame(sp, base, is_paused) ==
    IF is_paused THEN sp.lastframe ELSE spfx_frame(base, sp.timer)

\* the layer after spfx_render went through it; oob is what the catalog
\* yields for an instance whose effect is past its end
spfx_render_layer(stack, oob) ==
    [k \in 1 .. Len(stack) |->
        LET base == IF stack[k].effect < array_size(spfx_effects)
                    THEN At(spfx_effects, stack[k].effect) ELSE oob
        IN  [stack[k] EXCEPT
                !.lastframe = spfx_render_frame(stack[k], base, paused)]]

\* the sprites gl_blitSprite is asked for, in drawing order (last
\* instance first): the frame with its column and row in the sprite grid
spfx_render_blits(stack, oob) ==
    [k \in 1 .. Len(stack) |->
        LET sp   == stack[Len(stack) + 1 - k]
            base == IF sp.effect < array_size(spfx_effects)
                    THEN At(spfx_effects, sp.effect) ELSE oob
        IN  [frame |-> sp.lastframe, col |-> sp.lastframe % base.sx,
             row |-> sp.lastframe \div base.sx]]

spfx_render(layer) ==
    /\ IF layer \notin {SPFX_LAYER_FRONT, SPFX_LAYER_BACK}
       THEN /\ UNCHANGED <<spfx_stack_front, spfx_stack_back>>
            /\ hist' = [PoolCall("render") EXCEPT !.layer = layer]
       ELSE \E oob \in OutOfBoundsBase :
            LET stack == IF layer = SPFX_LAYER_FRONT THEN spfx_stack_front
                         ELSE spfx_stack_back
                after == spfx_render_layer(stack, oob)
            IN  /\ IF layer = SPFX_LAYER_FRONT
                   THEN /\ spfx_stack_front' = after
                        /\ UNCHANGED spfx_stack_back
                   ELSE /\ spfx_stack_back' = after
                        /\ UNCHANGED spfx_stack_front
                /\ hist' = [PoolCall("render") EXCEPT
                               !.layer = layer,
                               !.drawn = spfx_render_blits(after, oob)]
    /\ UNCHANGED <<spfx_effects, paused, shake_vars, shake_noise, hapt_vars,
                   gl_view_matrix, trail_points, in_frame, ncalls>>

\* pause_game / unpause_game of pause.c: the global pause flag flips
pause_toggle ==
    /\ paused' = ~paused
    /\ hist' = PoolCall("pause")
    /\ UNCHANGED <<spfx_effects, spfx_stack_front, spfx_stack_back,
                   shake_vars, shake_noise, hapt_vars, gl_view_matrix,
                   trail_points, in_frame, ncalls>>

\* the index the loop of spfx_update_layer continues with after erasing
\* element i: i-- followed by the loop's i++
after_erase_skip(i) == i + 1
after_erase(i) == i

RECURSIVE update_loop(_, _, _)
update_loop(layer, i, dt) ==
    IF i >= array_size(layer) THEN layer
    ELSE LET t == At(layer, i).timer - dt
         IN  IF t < 0
             THEN update_loop(array_erase(layer, i, i + 1), after_erase(i), dt)
             ELSE update_loop(
                    [layer EXCEPT ![i + 1].timer = t,
                                  ![i + 1].pos =
                                     vect_cadd(At(layer, i).pos,
                                               dt * At(layer, i).vel[1],
                                               dt * At(layer, i).vel[2])],
                    i + 1, dt)

spfx_update_layer(layer, dt) == update_loop(layer, 0, dt)

spfx_update(dt) ==
    /\ spfx_stack_front' = spfx_update_layer(spfx_stack_front, dt)
    /\ spfx_stack_back' = spfx_update_layer(spfx_stack_back, dt)
    /\ hist' = [PoolCall("update") EXCEPT !.dt = dt]
    /\ UNCHANGED <<spfx_effects, paused, shake_vars, shake_noise, hapt_vars,
                   gl_view_matrix, trail_points, in_frame, ncalls>>

\* spfx_clear resets the shake state; it does not touch the pools
spfx_clear ==
    /\ shake_set' = 0
    /\ shake_off' = 1
    /\ shake_force_mod' = 0
    /\ shake_pos' = vectnull
    /\ shake_vel' = vectnull
    /\ hist' = [PoolCall("clear") EXCEPT !.pos = shake_pos, !.vel = shake_vel,
                                         !.force = shake_force_mod,
                                         !.off = shake_off,
                                         !.view = gl_view_matrix]
    /\ UNCHANGED <<pool_vars, shake_force_ang, shake_noise, hapt_vars,
                   gl_view_matrix, trail_points, in_frame, ncalls>>

-----------------------------------------------------------------------------
(* Shake simulator.  Positions, velocities, force modifiers and times are  *)
(* in thousandths; forces are in millionths.                               *)

\* 1/SHAKE_MASS
SHAKE_MASS_INV == 400
\* SHAKE_K in thousandths
SHAKE_K == 20
\* SHAKE_B = 3*sqrt(SHAKE_K*SHAKE_MASS) = 0.0212132 in millionths
SHAKE_B == 21213
\* SHAKE_DECAY and SHAKE_MAX of spfx.h, in thousandths
SHAKE_DECAY == 300
SHAKE_MAX == 1000
\* shake_fps_min: the largest step passed to spfx_updateShake, in ms
shake_fps_min == 100
\* the settlement threshold 0.01 of spfx_updateShake, in thousandths
SHAKE_SETTLED == 10
\* the phase 1e3 past which a settling shake redraws shake_force_ang
SHAKE_ANG_WRAP == 1000000
\* HAPTIC_UPDATE_INTERVAL in ms
HAPTIC_UPDATE_INTERVAL == 100

\* VMOD(v) < eps, with VMOD the Euclidean norm
VMOD_lt(v, eps) ==
    /\ Abs(v[1]) < eps
    /\ Abs(v[2]) < eps
    /\ v[1] * v[1] + v[2] * v[2] < eps * eps

\* <<cos, sin>> in thousandths of the angles k*pi/4, k = 0..7
DirTable ==
    << <<1000, 0>>, <<707, 707>>, <<0, 1000>>, <<-707, 707>>,
       <<-1000, 0>>, <<-707, -707>>, <<0, -1000>>, <<707, -707>> >>

\* The coherent noise of perlin.c, as a table per generator: the angle
\* noise_simplex1(...)*5*pi, as an index into DirTable, for each cell of
\* the phase.
NoiseTables ==
    << <<0, 1, 4, 3, 2, 6, 7, 5>>,
       <<2, 2, 2, 2, 2, 2, 2, 2>> >>

\* phase covered by one cell of a noise table, in thousandths
NoiseCell == 50

noise_simplex1(noise, ang) ==
    NoiseTables[noise + 1][((ang \div NoiseCell) % 8) + 1]

\* the shake state spfx_updateShake works on
ShakeState ==
    [pos |-> shake_pos, vel |-> shake_vel, force_mod |-> shake_force_mod,
     force_ang |-> shake_force_ang, off |-> shake_off]

\* shake_force_mod after the decay step, and whether the shake is forced
shake_decay_unforced(force_mod, dt) ==
    IF force_mod > 0
    THEN LET f == force_mod - Round(SHAKE_DECAY * dt, 1000)
         IN  IF f < 0 THEN [force_mod |-> 0, forced |-> 0]
             ELSE [force_mod |-> f, forced |-> 0]
    ELSE [force_mod |-> force_mod, forced |-> 0]
shake_decay_to_zero_unforced(force_mod, dt) ==
    IF force_mod > 0
    THEN LET f == force_mod - Round(SHAKE_DECAY * dt, 1000)
         IN  IF f <= 0 THEN [force_mod |-> 0, forced |-> 0]
             ELSE [force_mod |-> f, forced |-> 1]
    ELSE [force_mod |-> force_mod, forced |-> 0]
shake_decay(force_mod, dt) ==
    IF force_mod > 0
    THEN LET f == force_mod - Round(SHAKE_DECAY * dt, 1000)
         IN  IF f < 0 THEN [force_mod |-> 0, forced |-> 0]
             ELSE [force_mod |-> f, forced |-> 1]
    ELSE [force_mod |-> force_mod, forced |-> 0]

\* what the settlement branch of spfx_updateShake leaves of the state
shake_settle_stays_on(st, rng) == st
shake_settle(st, rng) ==
    [st EXCEPT !.off = 1,
               !.force_ang = IF st.force_ang > SHAKE_ANG_WRAP
                             THEN rng ELSE st.force_ang]

\* spfx_updateShake( dt ) on the state st of generator noise; rng is the
\* value RNGF() returns if it is called
spfx_updateShake(st, noise, dt, rng) ==
    IF st.off = 1 THEN st
    ELSE
    LET d   == shake_decay(st.force_mod, dt)
        st1 == [st EXCEPT !.force_mod = d.force_mod]
    IN  IF d.forced = 0 /\ VMOD_lt(st1.pos, SHAKE_SETTLED)
                        /\ VMOD_lt(st1.vel, SHAKE_SETTLED)
        THEN shake_settle(st1, rng)
        ELSE
        LET ang == IF d.forced = 1 THEN st1.force_ang + dt
                   ELSE st1.force_ang
            dir == DirTable[noise_simplex1(noise, ang) + 1]
            spring_x == -(SHAKE_K * st1.pos[1])
                        - Round(SHAKE_B * st1.vel[1], 1000)
            spring_y == -(SHAKE_K * st1.pos[2])
                        - Round(SHAKE_B * st1.vel[2], 1000)
            force_x == IF d.forced = 1
                       THEN spring_x + st1.force_mod * dir[1] ELSE spring_x
            force_y == IF d.forced = 1
                       THEN spring_y + st1.force_mod * dir[2] ELSE spring_y
            vel == vect_cadd(st1.vel,
                             Round(force_x * dt, 1000000 \div SHAKE_MASS_INV),
                             Round(force_y * dt, 1000000 \div SHAKE_MASS_INV))
            pos == vect_cadd(st1.pos, Round(vel[1] * dt, 1000),
                                      Round(vel[2] * dt, 1000))
        IN  [st1 EXCEPT !.force_ang = ang, !.vel = vel, !.pos = pos]

\* the control loop of spfx_begin: steps of shake_fps_min while more than
\* that is left, then the leftover.  Returns the state and the steps made.
begin_loop_whole(st, noise, ddt, rng, steps) ==
    [st |-> spfx_updateShake(st, noise, ddt, rng),
     steps |-> Append(steps, ddt)]
RECURSIVE begin_loop(_, _, _, _, _)
begin_loop(st, noise, ddt, rng, steps) ==
    IF ddt > shake_fps_min
    THEN begin_loop(spfx_updateShake(st, noise, shake_fps_min, rng), noise,
                    ddt - shake_fps_min, rng, Append(steps, shake_fps_min))
    ELSE [st |-> spfx_updateShake(st, noise, ddt, rng),
          steps |-> Append(steps, ddt)]

\* gl_Matrix4_Translate( m, x, y, 0 ) on the translation of the view
gl_Matrix4_Translate(m, x, y) == <<m[1] + x, m[2] + y>>

\* gl_defViewport: the view transform without any offset
gl_defViewport == <<0, 0>>

\* the pre-state of the shake simulator
ShakeCall(op) ==
    [NoCall EXCEPT !.op = op, !.pos = shake_pos, !.vel = shake_vel,
                   !.force = shake_force_mod, !.ang = shake_force_ang,
                   !.off = shake_off, !.timer = haptic_lastUpdate,
                   !.view = gl_view_matrix, !.since = rumble_age]

\* the real time since the last device update, after a frame of real_dt
rumble_age_after(age, real_dt) ==
    IF age < 0 THEN age
    ELSE IF age + real_dt > HAPTIC_UPDATE_INTERVAL
         THEN HAPTIC_UPDATE_INTERVAL ELSE age + real_dt

spfx_begin(dt, real_dt) ==
    /\ ~in_frame
    /\ in_frame' = TRUE
    /\ rumble_age' = rumble_age_after(rumble_age, real_dt)
    /\ IF shake_off = 1
       THEN /\ shake_set' = 0
            /\ hist' = [ShakeCall("begin") EXCEPT !.dt = dt,
                                                  !.real_dt = real_dt]
            /\ UNCHANGED <<shake_pos, shake_vel, shake_force_mod,
                           shake_force_ang, shake_off, haptic_lastUpdate,
                           gl_view_matrix>>
       ELSE \E rng \in RNGF_Draws :
            LET r == begin_loop(ShakeState, shake_noise, dt, rng, <<>>)
            IN  /\ haptic_lastUpdate' = IF haptic_lastUpdate > 0
                                        THEN haptic_lastUpdate - real_dt
                                        ELSE haptic_lastUpdate
                /\ shake_pos' = r.st.pos
                /\ shake_vel' = r.st.vel
                /\ shake_force_mod' = r.st.force_mod
                /\ shake_force_ang' = r.st.force_ang
                /\ shake_off' = r.st.off
                /\ gl_view_matrix' = gl_Matrix4_Translate(gl_view_matrix,
                                         r.st.pos[1], r.st.pos[2])
                /\ shake_set' = 1
                /\ hist' = [ShakeCall("begin") EXCEPT
                               !.dt = dt, !.real_dt = real_dt,
                               !.steps = r.steps,
                               !.settled = (r.st.off = 1)]
    /\ UNCHANGED <<pool_vars, shake_noise, haptic_rumble, trail_points>>

spfx_end ==
    /\ in_frame
    /\ in_frame' = FALSE
    /\ gl_view_matrix' = IF shake_set = 0 THEN gl_view_matrix
                         ELSE gl_defViewport
    /\ hist' = ShakeCall("end")
    /\ UNCHANGED <<pool_vars, shake_vars, shake_noise, hapt_vars,
                   trail_points, ncalls>>

\* spfx_hapticRumble( mod ), called by spfx_shake after the modifier was
\* added and before shake_off is cleared.  ok: whether the device accepts
\* the update.  Returns the new timer, whether SDL_HapticUpdateEffect was
\* called (tried) and whether the new effect was run (ran).
spfx_hapticRumble(mod, ok) ==
    IF haptic_rumble >= 0
    THEN IF (haptic_lastUpdate > 0) \/ shake_off = 1
            \/ (3 * mod > SHAKE_MAX)
         THEN [timer |-> haptic_lastUpdate, tried |-> 0, ran |-> 0]
         ELSE IF ~ok
              THEN [timer |-> haptic_lastUpdate, tried |-> 1, ran |-> 0]
              ELSE [timer |-> haptic_lastUpdate + HAPTIC_UPDATE_INTERVAL,
                    tried |-> 1, ran |-> 1]
    ELSE [timer |-> haptic_lastUpdate, tried |-> 0, ran |-> 0]

\* shake_force_mod after spfx_shake( mod )
shake_add_unclamped(force_mod, mod) == force_mod + mod
shake_add(force_mod, mod) ==
    IF force_mod + mod > SHAKE_MAX THEN SHAKE_MAX ELSE force_mod + mod

spfx_shake(mod) ==
    /\ shake_force_mod' = shake_add(shake_force_mod, mod)
    /\ \E ok \in (IF haptic_rumble >= 0 /\ haptic_lastUpdate <= 0
                     /\ shake_off = 0 /\ 3 * mod <= SHAKE_MAX
                  THEN BOOLEAN ELSE {TRUE}) :
         LET h == spfx_hapticRumble(mod, ok)
         IN  /\ haptic_lastUpdate' = h.timer
             /\ rumble_age' = IF h.ran = 1 THEN 0 ELSE rumble_age
             /\ hist' = [ShakeCall("shake") EXCEPT !.mod = mod,
                                                   !.ret = h.ran,
                                                   !.tried = h.tried]
    /\ shake_off' = 0
    /\ UNCHANGED <<pool_vars, shake_set, shake_pos, shake_vel,
                   shake_force_ang, shake_noise, haptic_rumble,
                   gl_view_matrix, trail_points, in_frame>>

\* modifiers passed to spfx_shake, in thousandths (5000 is shake(5.0))
ShakeMods == {30, 60, 5000}

\* <<dt, real_dt>> of the frames, in ms
FrameTimes == { <<50, 50>>, <<250, 250>>, <<3000, 300>> }

-----------------------------------------------------------------------------
(* Trail engine.  Ages are in hundredths of a time unit. *)

\* the age of the newest point past which a trail asks to grow (2.)
TRAIL_GROW_AGE == 200
\* the age past which a point is outdated (50.)
TRAIL_MAX_AGE == 5000

\* the pre-state of the trail
TrailCall(op) == [NoCall EXCEPT !.op = op, !.points = trail_points]

spfx_trail_create ==
    /\ trail_points' = <<>>
    /\ hist' = TrailCall("trail_create")
    /\ UNCHANGED <<pool_vars, shake_vars, shake_noise, hapt_vars,
                   gl_view_matrix, in_frame, ncalls>>

spfx_trail_grow(pos, col) ==
    /\ trail_points' = array_push_back(trail_points,
                                       [p |-> pos, c |-> col, t |-> 0])
    /\ hist' = TrailCall("trail_grow")
    /\ UNCHANGED <<pool_vars, shake_vars, shake_noise, hapt_vars,
                   gl_view_matrix, in_frame, ncalls>>

\* "Update all elements": every point ages by dt
trail_age(points, dt) ==
    [k \in 1 .. Len(points) |-> [points[k] EXCEPT !.t = @ + dt]]

\* "Add a new dot to the track": the answer of spfx_trail_update
trail_needs_grow_head(points) ==
    IF points[1].t > TRAIL_GROW_AGE THEN 1 ELSE 0
trail_needs_grow(points) ==
    IF array_back(points).t > TRAIL_GROW_AGE THEN 1 ELSE 0

trail_trim_none(points, i) == points
\* "Remove first elements if they're outdated": scan from index i down to
\* 0; at the first outdated point erase the range from 0 to that point
RECURSIVE trail_trim(_, _)
trail_trim(points, i) ==
    IF i < 0 THEN points
    ELSE IF At(points, i).t > TRAIL_MAX_AGE
         THEN array_erase(points, 0, i)
         ELSE trail_trim(points, i - 1)

spfx_trail_update(dt) ==
    /\ IF array_size(trail_points) = 0
       THEN /\ UNCHANGED trail_points
            /\ hist' = [TrailCall("trail_update") EXCEPT !.dt = dt,
                                                         !.ret = 1]
       ELSE LET aged == trail_age(trail_points, dt)
            IN  /\ trail_points' =
                      trail_trim(aged, array_size(aged) - 1)
                /\ hist' = [TrailCall("trail_update") EXCEPT
                               !.dt = dt, !.ret = trail_needs_grow(aged)]
    /\ UNCHANGED <<pool_vars, shake_vars, shake_noise, hapt_vars,
                   gl_view_matrix, in_frame>>

\* positions and colours the callers pass to spfx_trail_grow
TrailPos == { <<0, 0>>, <<1, 0>> }
TrailCol == {0}

\* update intervals passed to spfx_trail_update
TrailDts == {0, 200, 2500}

-----------------------------------------------------------------------------
(* Initial state: after spfx_load *)

\* a call that counts against the bound max
Counted(max) == ncalls < max /\ ncalls' = ncalls + 1

\* whether the call spfx_add(effect, ..., layer) spawns an instance
Spawns(effect, layer) ==
    /\ ~spfx_add_invalid(effect, spfx_effects)
    /\ layer \in {SPFX_LAYER_FRONT, SPFX_LAYER_BACK}

\* the noise generators noise_new may return
NoiseSeeds == {0, 1}

Init ==
    /\ spfx_effects \in { spfx_load_effects(f) : f \in EffectFiles }
    /\ spfx_stack_front = <<>>
    /\ spfx_stack_back = <<>>
    /\ paused = FALSE
    /\ shake_set = 0
    /\ shake_pos = <<0, 0>>
    /\ shake_vel = <<0, 0>>
    /\ shake_force_mod = 0
    /\ shake_force_ang = 0
    /\ shake_off = 1
    /\ shake_noise \in NoiseSeeds
    /\ haptic_rumble \in {-1, 0}
    /\ haptic_lastUpdate = 0
    /\ rumble_age = -1
    /\ gl_view_matrix = <<0, 0>>
    /\ trail_points = <<>>
    /\ in_frame = FALSE
    /\ ncalls = 0
    /\ hist = NoCall

-----------------------------------------------------------------------------
(* The effect pools alone *)

InitPool == Init /\ shake_noise = 0 /\ haptic_rumble = -1

NextPool ==
    \/ \E call \in AddCalls(spfx_effects) :
       \E px \in AddPos, py \in AddPos, vx \in AddVel, vy \in AddPos :
          /\ Spawns(call[1], call[2]) =>
                /\ ncalls < MaxCalls
                /\ Len(IF call[2] = SPFX_LAYER_FRONT THEN spfx_stack_front
                       ELSE spfx_stack_back) < MaxPool
          /\ spfx_add(call[1], px, py, vx, vy, call[2])
          /\ ncalls' = IF Spawns(call[1], call[2]) THEN ncalls + 1
                       ELSE ncalls
    \/ \E dt \in UpdateDts : spfx_update(dt)
    \/ \E name \in LookupNames : spfx_get_call(name)
    \/ spfx_clear

SpecPool == InitPool /\ [][NextPool]_vars

-----------------------------------------------------------------------------
(* Claims about the effect pools *)

\* what one update of a layer should leave of the pool pre: the instances
\* with timer - dt >= 0, in order, each aged and moved
Survivors(pre, dt) ==
    LET IsAlive(e) == e.timer - dt >= 0
        alive == SelectSeq(pre, IsAlive)
    IN  [k \in 1 .. Len(alive) |->
            [alive[k] EXCEPT !.timer = @ - dt,
                             !.pos = <<@[1] + dt * alive[k].vel[1],
                                       @[2] + dt * alive[k].vel[2]>>]]

Expired(pre, dt) == { k \in 1 .. Len(pre) : pre[k].timer - dt < 0 }

\* C1: one update(dt) of a layer removes exactly the instances whose timer
\* minus dt is negative; every other instance survives once, in order, with
\* its timer decremented and its position advanced by velocity*dt, and the
\* pool shrinks by exactly the number of expired instances.
C1_UpdateRemovesExactlyExpired ==
    hist.op = "update" =>
        /\ spfx_stack_front = Survivors(hist.front, hist.dt)
        /\ spfx_stack_back = Survivors(hist.back, hist.dt)
        /\ Len(spfx_stack_front) =
              Len(hist.front) - Cardinality(Expired(hist.front, hist.dt))
        /\ Len(spfx_stack_back) =
              Len(hist.back) - Cardinality(Expired(hist.back, hist.dt))

\* an update in which two adjacent instances of the front layer expired
C1_Witness ==
    /\ hist.op = "update"
    /\ Len(hist.front) >= 2
    /\ {1, 2} \subseteq Expired(hist.front, hist.dt)
    /\ Len(spfx_stack_front) = Len(hist.front) - 2

\* the last call was an spfx_add that spawned an instance
Spawned ==
    /\ hist.op = "add"
    /\ (spfx_stack_front # hist.front \/ spfx_stack_back # hist.back)

\* the instance the last spfx_add spawned
NewInstance ==
    IF hist.layer = SPFX_LAYER_FRONT THEN array_back(spfx_stack_front)
    ELSE array_back(spfx_stack_back)

\* the last spfx_add spawned an instance of a template of the catalog
SpawnedFromTemplate == Spawned /\ hist.effect < array_size(hist.effects)

\* C2 (as claimed): the timer of a spawned instance is ttl when ttl = anim,
\* and lies in [ttl, ttl + anim) otherwise.
C2_TimerInRange_Claimed ==
    SpawnedFromTemplate =>
        LET base == At(hist.effects, hist.effect)
        IN  /\ base.ttl = base.anim => NewInstance.timer = base.ttl
            /\ base.ttl # base.anim =>
                  /\ base.ttl <= NewInstance.timer
                  /\ NewInstance.timer < base.ttl + base.anim

\* C2 (amended): the timer of a spawned instance is ttl when ttl = anim;
\* otherwise it lies in [ttl, ttl + anim) when anim > 0, and is ttl itself
\* when anim = 0 (a degenerate template, where that interval is empty).
C2_TimerInRange ==
    SpawnedFromTemplate =>
        LET base == At(hist.effects, hist.effect)
        IN  /\ base.ttl = base.anim => NewInstance.timer = base.ttl
            /\ (base.ttl # base.anim /\ base.anim > 0) =>
                  /\ base.ttl <= NewInstance.timer
                  /\ NewInstance.timer < base.ttl + base.anim
            /\ (base.ttl # base.anim /\ base.anim = 0) =>
                  NewInstance.timer = base.ttl

\* a spawn from a template with ttl /= anim, anim > 0 and a non-zero draw
C2_Witness ==
    /\ SpawnedFromTemplate
    /\ At(hist.effects, hist.effect).ttl # At(hist.effects, hist.effect).anim
    /\ At(hist.effects, hist.effect).anim > 0
    /\ hist.rng > 0
    /\ NewInstance.timer > At(hist.effects, hist.effect).ttl

\* C3: spfx_add with an effect index outside the catalog (effect < 0 or
\* effect >= catalog size) leaves both pools unchanged.
C3_OutOfRangeIsNoOp ==
    (hist.op = "add"
       /\ (hist.effect < 0 \/ hist.effect >= array_size(hist.effects))) =>
        /\ spfx_stack_front = hist.front
        /\ spfx_stack_back = hist.back

\* C4: after spfx_clear both pools are empty and the catalog is unchanged.
C4_ClearEmptiesPools ==
    hist.op = "clear" =>
        /\ spfx_stack_front = <<>>
        /\ spfx_stack_back = <<>>
        /\ spfx_effects = hist.effects

\* C13: spfx_update(0) leaves both pools unchanged (same instances, same
\* order, same timers, positions and velocities) in every state reached by
\* spfx_add and spfx_update calls.
C13_UpdateZeroIsIdentity ==
    (hist.op = "update" /\ hist.dt = 0) =>
        /\ spfx_stack_front = hist.front
        /\ spfx_stack_back = hist.back

\* the indices of the templates of the catalog called name
Matches(effects, name) ==
    { i \in 0 .. array_size(effects) - 1 : At(effects, i).name = name }

\* C14: spfx_get(name) returns the index of the first template of the
\* catalog called name, or -1 when there is none; spfx_add called with the
\* value spfx_get returns for a missing name is a no-op that leaves the
\* sizes of both pools unchanged.
C14_LookupAndSentinel ==
    /\ hist.op = "get" =>
          IF Matches(hist.effects, hist.name) = {}
          THEN hist.ret = -1
          ELSE /\ hist.ret \in Matches(hist.effects, hist.name)
               /\ \A j \in Matches(hist.effects, hist.name) : hist.ret <= j
    /\ (hist.op = "add"
          /\ hist.effect = spfx_get(hist.effects, "nonexistent")) =>
          /\ Len(spfx_stack_front) = Len(hist.front)
          /\ Len(spfx_stack_back) = Len(hist.back)
          /\ spfx_stack_front = hist.front
          /\ spfx_stack_back = hist.back

\* a spawn with the index of a missing name, made on pools that hold
\* instances, with a catalog in which two templates share a name
C14_Witness ==
    /\ hist.op = "add"
    /\ Matches(hist.effects, "nonexistent") = {}
    /\ hist.effect = spfx_get(hist.effects, "nonexistent")
    /\ Len(hist.front) > 0
    /\ Cardinality(Matches(hist.effects, "ExpM")) = 2
    /\ spfx_get(hist.effects, "ExpM") = 0

\* C16: spfx_add with a valid effect index and layer SPFX_LAYER_FRONT (resp.
\* SPFX_LAYER_BACK) appends exactly one instance of that effect at the tail
\* of the front (resp. back) pool and leaves every instance already in that
\* pool and the whole other pool unchanged; with any other layer value it
\* changes neither pool.
C16_SpawnAppendsToOneLayer ==
    (/\ hist.op = "add"
     /\ hist.effect >= 0
     /\ hist.effect < array_size(hist.effects)) =>
        /\ hist.layer = SPFX_LAYER_FRONT =>
              /\ Len(spfx_stack_front) = Len(hist.front) + 1
              /\ SubSeq(spfx_stack_front, 1, Len(hist.front)) = hist.front
              /\ array_back(spfx_stack_front).effect = hist.effect
              /\ spfx_stack_back = hist.back
        /\ hist.layer = SPFX_LAYER_BACK =>
              /\ Len(spfx_stack_back) = Len(hist.back) + 1
              /\ SubSeq(spfx_stack_back, 1, Len(hist.back)) = hist.back
              /\ array_back(spfx_stack_back).effect = hist.effect
              /\ spfx_stack_front = hist.front
        /\ hist.layer \notin {SPFX_LAYER_FRONT, SPFX_LAYER_BACK} =>
              /\ spfx_stack_front = hist.front
              /\ spfx_stack_back = hist.back

\* a spawn on the back layer while the back pool holds an instance of
\* another effect
C16_Witness ==
    /\ hist.op = "add"
    /\ hist.effect >= 0
    /\ hist.effect < array_size(hist.effects)
    /\ hist.layer = SPFX_LAYER_BACK
    /\ Len(hist.back) > 0
    /\ hist.back[1].effect # hist.effect
    /\ Len(spfx_stack_back) = Len(hist.back) + 1

-----------------------------------------------------------------------------
(* Rendering: the pools with spawns, updates, renders and pauses *)

\* spawning spfx_add calls in one behaviour of the rendering runs
MaxSpawns == 2

NextRender ==
    \/ \E call \in AddCalls(spfx_effects) :
          /\ Spawns(call[1], call[2])
          /\ Len(IF call[2] = SPFX_LAYER_FRONT THEN spfx_stack_front
                 ELSE spfx_stack_back) < MaxPool
          /\ Counted(MaxSpawns)
          /\ spfx_add(call[1], 0, 0, 3, 0, call[2])
    \/ \E dt \in UpdateDts : spfx_update(dt)
    \/ \E layer \in RenderLayers : spfx_render(layer)
    \/ pause_toggle

SpecRender == InitPool /\ [][NextRender]_vars

-----------------------------------------------------------------------------
(* Claims about rendering *)

\* a pool without the lastframe fields of its instances
Drawless(pool) ==
    [k \in 1 .. Len(pool) |->
        [effect |-> pool[k].effect, pos |-> pool[k].pos,
         vel |-> pool[k].vel, timer |-> pool[k].timer]]

\* the pool spfx_render(hist.layer) went through, before and after the call
RenderedBefore ==
    IF hist.layer = SPFX_LAYER_FRONT THEN hist.front ELSE hist.back
RenderedAfter ==
    IF hist.layer = SPFX_LAYER_FRONT THEN spfx_stack_front
    ELSE spfx_stack_back

\* C20: spfx_render(layer) never changes the membership, order, timers,
\* positions or velocities of either pool; while the game is paused it
\* also leaves every lastframe unchanged and draws the frame stored in each
\* instance; with an invalid layer it draws nothing and changes nothing.
C20_RenderKeepsPools ==
    hist.op = "render" =>
        /\ Drawless(spfx_stack_front) = Drawless(hist.front)
        /\ Drawless(spfx_stack_back) = Drawless(hist.back)
        /\ spfx_effects = hist.effects
        /\ paused =>
              /\ spfx_stack_front = hist.front
              /\ spfx_stack_back = hist.back
              /\ hist.layer \in {SPFX_LAYER_FRONT, SPFX_LAYER_BACK} =>
                    /\ Len(hist.drawn) = Len(RenderedBefore)
                    /\ \A k \in 1 .. Len(hist.drawn) :
                          hist.drawn[k].frame =
                             RenderedBefore[Len(RenderedBefore) + 1 - k]
                                .lastframe
        /\ hist.layer \notin {SPFX_LAYER_FRONT, SPFX_LAYER_BACK} =>
              /\ spfx_stack_front = hist.front
              /\ spfx_stack_back = hist.back
              /\ hist.drawn = <<>>

\* a render while paused of an instance of a valid effect whose stored
\* frame is no longer the frame its timer gives
C20_Witness ==
    /\ hist.op = "render"
    /\ paused
    /\ hist.layer = SPFX_LAYER_FRONT
    /\ Len(spfx_stack_front) >= 1
    /\ spfx_stack_front[1].effect < array_size(spfx_effects)
    /\ spfx_stack_front[1].lastframe > 0
    /\ spfx_stack_front[1].lastframe #
          spfx_frame(At(spfx_effects, spfx_stack_front[1].effect),
                     spfx_stack_front[1].timer)

\* the instances an unpaused spfx_render(hist.layer) just drew that are
\* live (timer >= 0) and of a template of the catalog with anim > 0
DrawnLive ==
    { k \in 1 .. Len(RenderedAfter) :
        /\ RenderedAfter[k].timer >= 0
        /\ RenderedAfter[k].effect < array_size(spfx_effects)
        /\ At(spfx_effects, RenderedAfter[k].effect).anim > 0 }

\* C21: for every live instance drawn by an unpaused spfx_render (timer >=
\* 0, template with anim > 0 and an sx-by-sy sprite sheet) the computed
\* lastframe is within 0 .. sx*sy - 1, so the sprite cell (lastframe % sx,
\* lastframe / sx) is inside the sheet, also when the timer is 0 or an
\* exact multiple of anim.
C21_FrameInSheet ==
    (/\ hist.op = "render"
     /\ ~paused
     /\ hist.layer \in {SPFX_LAYER_FRONT, SPFX_LAYER_BACK}) =>
        \A k \in DrawnLive :
            LET base  == At(spfx_effects, RenderedAfter[k].effect)
                frame == RenderedAfter[k].lastframe
                blit  == hist.drawn[Len(RenderedAfter) + 1 - k]
            IN  /\ frame >= 0
                /\ frame <= base.sx * base.sy - 1
                /\ blit.frame = frame
                /\ blit.col < base.sx
                /\ blit.row < base.sy

-----------------------------------------------------------------------------
(* The shake simulator alone *)

InitShake == Init /\ spfx_effects = spfx_load_effects(OneEffect)

NextShake ==
    \/ \E mod \in ShakeMods : Counted(MaxFrames) /\ spfx_shake(mod)
    \/ \E ft \in FrameTimes : Counted(MaxFrames) /\ spfx_begin(ft[1], ft[2])
    \/ spfx_end
    \/ spfx_clear

SpecShake == InitShake /\ [][NextShake]_vars

-----------------------------------------------------------------------------
(* Settlement: spfx_shake(5.0) from rest, then frames only *)

\* the frame time of a regular frame, and those of the irregular ones
RegularFrame == <<100, 100>>
JitterFrames == { <<250, 250>>, <<3000, 300>> }

InitSettle ==
    /\ spfx_effects = spfx_load_effects(OneEffect)
    /\ spfx_stack_front = <<>>
    /\ spfx_stack_back = <<>>
    /\ paused = FALSE
    /\ shake_set = 0
    /\ shake_pos = <<0, 0>>
    /\ shake_vel = <<0, 0>>
    /\ shake_force_mod = shake_add(0, 5000)
    /\ shake_force_ang = 0
    /\ shake_off = 0
    /\ shake_noise \in NoiseSeeds
    /\ haptic_rumble = -1
    /\ haptic_lastUpdate = 0
    /\ rumble_age = -1
    /\ gl_view_matrix = <<0, 0>>
    /\ trail_points = <<>>
    /\ in_frame = FALSE
    /\ ncalls = 0
    /\ hist = [NoCall EXCEPT !.op = "shake", !.mod = 5000]

RegularBegin ==
    spfx_begin(RegularFrame[1], RegularFrame[2]) /\ UNCHANGED ncalls

BeginFrame ==
    \/ RegularBegin
    \/ \E ft \in JitterFrames :
          Counted(MaxJitter) /\ spfx_begin(ft[1], ft[2])

NextSettle ==
    \/ BeginFrame
    \/ spfx_end

SpecSettle ==
    /\ InitSettle
    /\ [][NextSettle]_vars
    /\ WF_vars(RegularBegin)
    /\ WF_vars(spfx_end)

-----------------------------------------------------------------------------
(* Claims about the shake simulator *)

\* spfx_getShake( &x, &y )
spfx_getShake_raw == shake_pos
spfx_getShake == IF shake_off = 1 THEN <<0, 0>> ELSE shake_pos

C6_NoOffsetAfterEnd ==
    hist.op = "end" => gl_view_matrix = gl_defViewport


\* C7: after spfx_shake(5.0) from rest and no further shake, frames with
\* dt > 0 eventually leave the simulator inactive with spfx_getShake
\* reporting (0,0), and it stays so.
C7_ShakeSettles ==
    <>[](shake_off = 1 /\ spfx_getShake = <<0, 0>>)

\* the frame in which the shake started by spfx_shake(5.0) settled
C7_Witness ==
    /\ hist.op = "begin"
    /\ hist.off = 0
    /\ hist.settled
    /\ shake_off = 1
    /\ shake_force_mod = 0

\* C15: shake_force_mod is within [0, SHAKE_MAX] in every state reached by
\* spfx_shake(mod) with mod >= 0, frames and spfx_clear: spfx_shake sets it
\* to min(old + mod, SHAKE_MAX) and activates the simulator, a frame on an
\* active simulator lowers it by SHAKE_DECAY*dt floored at 0, and no call
\* other than spfx_shake raises it.
C15_ForceInRange ==
    /\ shake_force_mod >= 0
    /\ shake_force_mod <= SHAKE_MAX
    /\ hist.op = "shake" =>
          /\ hist.mod >= 0
          /\ shake_force_mod = IF hist.force + hist.mod < SHAKE_MAX
                               THEN hist.force + hist.mod ELSE SHAKE_MAX
          /\ shake_off = 0
    /\ (hist.op = "begin" /\ hist.off = 0) =>
          LET decayed == hist.force - Round(SHAKE_DECAY * hist.dt, 1000)
          IN  shake_force_mod = IF decayed < 0 THEN 0 ELSE decayed
    /\ hist.op # "shake" => shake_force_mod <= hist.force

\* a spfx_shake on an already forced simulator that hit the clamp
C15_Witness ==
    /\ hist.op = "shake"
    /\ hist.force > 0
    /\ hist.force < SHAKE_MAX
    /\ hist.force + hist.mod > SHAKE_MAX
    /\ shake_force_mod = SHAKE_MAX

\* the sum of a sequence of numbers
RECURSIVE SeqSum(_)
SeqSum(seq) == IF seq = <<>> THEN 0 ELSE seq[1] + SeqSum(Tail(seq))

\* C17: spfx_begin(dt, real_dt) on an active simulator calls
\* spfx_updateShake with steps none of which exceeds shake_fps_min, that
\* sum exactly to dt, and of which at most the last one is smaller than
\* shake_fps_min; for dt <= shake_fps_min it makes the single step dt.
C17_SubSteps ==
    (hist.op = "begin" /\ hist.off = 0) =>
        /\ Len(hist.steps) >= 1
        /\ \A k \in 1 .. Len(hist.steps) : hist.steps[k] <= shake_fps_min
        /\ SeqSum(hist.steps) = hist.dt
        /\ \A k \in 1 .. Len(hist.steps) - 1 : hist.steps[k] = shake_fps_min
        /\ hist.dt <= shake_fps_min => hist.steps = <<hist.dt>>

\* a frame of 2.5 maximum steps on an active simulator
C17_Witness ==
    /\ hist.op = "begin"
    /\ hist.off = 0
    /\ hist.dt > 2 * shake_fps_min
    /\ hist.dt < 3 * shake_fps_min
    /\ Len(hist.steps) = 3
    /\ hist.steps[3] < shake_fps_min

\* the last call was a frame of a single spfx_updateShake step on an
\* active simulator
SingleTick ==
    /\ hist.op = "begin"
    /\ hist.off = 0
    /\ Len(hist.steps) = 1

\* the simulator was within the settlement threshold before the last call
WasNearRest ==
    /\ VMOD_lt(hist.pos, SHAKE_SETTLED)
    /\ VMOD_lt(hist.vel, SHAKE_SETTLED)

\* the velocity the spring and damper alone give the simulator in a step dt
\* from the state before the last call
SpringOnlyVel ==
    LET fx == -(SHAKE_K * hist.pos[1]) - Round(SHAKE_B * hist.vel[1], 1000)
        fy == -(SHAKE_K * hist.pos[2]) - Round(SHAKE_B * hist.vel[2], 1000)
    IN  <<hist.vel[1] + Round(fx * hist.dt, 1000000 \div SHAKE_MASS_INV),
          hist.vel[2] + Round(fy * hist.dt, 1000000 \div SHAKE_MASS_INV)>>

\* what a step does when it is not forced: the phase stays, the settlement
\* check is made, and a simulator that does not settle moves under the
\* spring alone
UnforcedTick ==
    /\ shake_force_ang = hist.ang
    /\ WasNearRest => shake_off = 1
    /\ ~WasNearRest => (shake_off = 0 /\ shake_vel = SpringOnlyVel)

\* what a step does when it is forced: the phase advances by dt and the
\* simulator stays active whatever its position and velocity
ForcedTick ==
    /\ shake_force_ang = hist.ang + hist.dt
    /\ shake_off = 0

\* C19: a step is unforced whenever shake_force_mod is 0 after the decay
\* (also when the decay brings it to exactly 0) and forced otherwise; an
\* unforced step adds no perturbation, does not advance shake_force_ang,
\* and evaluates the settlement check.
C19_ForcedIffForceLeft ==
    SingleTick =>
        IF shake_force_mod = 0 THEN UnforcedTick ELSE ForcedTick

\* C19 (amended): a step is forced when shake_force_mod was positive before
\* it and the decay leaves it at 0 or more, also when the decay brings it
\* to exactly 0; it is unforced when shake_force_mod was 0 already or
\* the decay takes it below 0 (it is then floored at 0).  An unforced step
\* adds no perturbation, does not advance shake_force_ang, and evaluates
\* the settlement check; the step that reaches exactly 0 advances
\* shake_force_ang and skips the settlement check, which the next step
\* makes.
C19_ForcedUnlessBelowZero ==
    SingleTick =>
        IF hist.force > 0
           /\ hist.force - Round(SHAKE_DECAY * hist.dt, 1000) >= 0
        THEN ForcedTick
        ELSE shake_force_mod = 0 /\ UnforcedTick

\* a step in which the decay brought shake_force_mod to exactly 0
C19_Witness ==
    /\ SingleTick
    /\ hist.force > 0
    /\ hist.force - Round(SHAKE_DECAY * hist.dt, 1000) = 0
    /\ shake_force_mod = 0
    /\ shake_force_ang = hist.ang + hist.dt

\* the last call was a spfx_begin on an inactive simulator, and it changed
\* nothing of the view, the shake state and the haptic cooldown
InactiveBeginIdle ==
    /\ shake_set = 0
    /\ gl_view_matrix = hist.view
    /\ shake_pos = hist.pos
    /\ shake_vel = hist.vel
    /\ shake_force_mod = hist.force
    /\ shake_force_ang = hist.ang
    /\ shake_off = 1
    /\ haptic_lastUpdate = hist.timer

\* C22: whenever spfx_begin returns with shake_set = 1 the simulator is
\* still active and the offset applied to the view is what spfx_getShake
\* reports; a spfx_begin during which the simulator settles commits no
\* offset; a spfx_begin on an inactive simulator commits nothing and
\* changes no shake or haptic-cooldown state.
C22_CommitOnlyWhileActive ==
    hist.op = "begin" =>
        /\ shake_set = 1 =>
              /\ shake_off = 0
              /\ gl_view_matrix =
                    gl_Matrix4_Translate(hist.view, spfx_getShake[1],
                                         spfx_getShake[2])
        /\ hist.settled => (shake_set = 0 /\ gl_view_matrix = hist.view)
        /\ hist.off = 1 => InactiveBeginIdle

\* C22 (amended): spfx_begin returns with shake_set = 1 exactly when the
\* simulator was active at the call, and the offset applied to the view is
\* then shake_pos after the frame's steps.  If the simulator is still
\* active that is what spfx_getShake reports; if it settled during the
\* frame the offset is committed all the same - the residual position,
\* within the settlement threshold - while spfx_getShake reports (0,0).  A
\* spfx_begin on an inactive simulator commits nothing and changes no shake
\* or haptic-cooldown state.
C22_CommitWheneverActiveAtCall ==
    hist.op = "begin" =>
        IF hist.off = 1 THEN InactiveBeginIdle
        ELSE /\ shake_set = 1
             /\ gl_view_matrix =
                   gl_Matrix4_Translate(hist.view, shake_pos[1],
                                        shake_pos[2])
             /\ hist.settled = (shake_off = 1)
             /\ ~hist.settled => spfx_getShake = shake_pos
             /\ hist.settled =>
                   /\ VMOD_lt(shake_pos, SHAKE_SETTLED)
                   /\ spfx_getShake = <<0, 0>>

\* a frame in which the simulator settled off its rest position and the
\* residual offset was committed to the view
C22_Witness ==
    /\ hist.op = "begin"
    /\ hist.off = 0
    /\ hist.settled
    /\ shake_off = 1
    /\ shake_set = 1
    /\ shake_pos # <<0, 0>>
    /\ gl_view_matrix # hist.view

-----------------------------------------------------------------------------
(* The haptic coupling: a device with an uploaded rumble effect *)

\* calls of spfx_shake and spfx_begin in one behaviour of the haptic runs
MaxHaptic == 5

InitHaptic ==
    /\ Init
    /\ spfx_effects = spfx_load_effects(OneEffect)
    /\ shake_noise = 0
    /\ haptic_rumble = 0

NextHaptic ==
    \/ \E mod \in ShakeMods : Counted(MaxHaptic) /\ spfx_shake(mod)
    \/ \E ft \in FrameTimes : Counted(MaxHaptic) /\ spfx_begin(ft[1], ft[2])
    \/ spfx_end

SpecHaptic == InitHaptic /\ [][NextHaptic]_vars

-----------------------------------------------------------------------------
(* Claims about the haptic coupling *)

\* the last call was an spfx_shake that updated and ran the device's effect
DeviceUpdated == hist.op = "shake" /\ hist.ret = 1

\* C11: any two consecutive device updates made by spfx_hapticRumble are
\* separated by at least HAPTIC_UPDATE_INTERVAL of accumulated real time:
\* when the device is updated and it was updated before, the frames begun
\* since the previous update add up to at least the interval.
C11_UpdatesThrottled ==
    (DeviceUpdated /\ hist.since >= 0) =>
        hist.since >= HAPTIC_UPDATE_INTERVAL

\* C12: with an uploaded effect, every spfx_shake(mod) updates the device
\* unless the cooldown is still running or mod > SHAKE_MAX/3; in particular
\* a spfx_shake with mod <= SHAKE_MAX/3 made while the simulator is
\* inactive and the cooldown has expired updates the device.
C12_ShakeUpdatesDevice ==
    (/\ hist.op = "shake"
     /\ haptic_rumble >= 0
     /\ hist.timer <= 0
     /\ 3 * hist.mod <= SHAKE_MAX) => hist.tried = 1

-----------------------------------------------------------------------------
(* The trail engine alone *)

InitTrail ==
    /\ Init
    /\ spfx_effects = spfx_load_effects(OneEffect)
    /\ shake_noise = 0
    /\ haptic_rumble = -1

NextTrail ==
    \/ spfx_trail_create
    \/ \E pos \in TrailPos, col \in TrailCol :
          /\ Len(trail_points) < MaxTrail
          /\ spfx_trail_grow(pos, col)
    \/ \E dt \in TrailDts :
          /\ trail_points # <<>> => trail_points[1].t + dt <= MaxAge
          /\ spfx_trail_update(dt)
          /\ UNCHANGED ncalls

SpecTrail == InitTrail /\ [][NextTrail]_vars

-----------------------------------------------------------------------------
(* Claims about the trail engine *)

\* the ages of the points of a trail
Ages(points) == [k \in 1 .. Len(points) |-> points[k].t]

\* the trail of the last update after ageing, before trimming
AgedBefore == [k \in 1 .. Len(hist.points) |->
                  [hist.points[k] EXCEPT !.t = @ + hist.dt]]

\* the (1-based) position of the newest point of AgedBefore that is older
\* than TRAIL_MAX_AGE, 0 if there is none
CutPoint ==
    LET old == { k \in 1 .. Len(AgedBefore) :
                    AgedBefore[k].t > TRAIL_MAX_AGE }
    IN  IF old = {} THEN 0
        ELSE CHOOSE k \in old : \A j \in old : j <= k

\* C8: when an update finds a point older than TRAIL_MAX_AGE,
\* the points from the head up to and including the newest such point are
\* removed: no retained point is older than TRAIL_MAX_AGE and the points
\* newer than the cut point are preserved in order.
C8_TrimRemovesOutdated ==
    (hist.op = "trail_update" /\ CutPoint > 0) =>
        /\ \A k \in 1 .. Len(trail_points) :
              trail_points[k].t <= TRAIL_MAX_AGE
        /\ trail_points =
              SubSeq(AgedBefore, CutPoint + 1, Len(AgedBefore))

\* What spfx_trail_update does instead: the points before the newest
\* outdated point are removed, that point itself stays at the head.
TrimKeepsCutPoint ==
    (hist.op = "trail_update" /\ CutPoint > 0) =>
        trail_points = SubSeq(AgedBefore, CutPoint, Len(AgedBefore))

\* C9: spfx_trail_update answers 1 exactly when the trail is empty at the
\* call or its newest point, aged by dt, is older than TRAIL_GROW_AGE; on
\* an empty trail it answers 1 and leaves the trail empty.
C9_NeedsGrowth ==
    hist.op = "trail_update" =>
        /\ hist.ret = 1 <=>
              \/ hist.points = <<>>
              \/ AgedBefore[Len(AgedBefore)].t > TRAIL_GROW_AGE
        /\ hist.ret \in {0, 1}
        /\ hist.points = <<>> => trail_points = <<>>

\* an update of a trail of several points whose newest point is young while
\* its oldest is not, answering 0
C9_Witness ==
    /\ hist.op = "trail_update"
    /\ Len(hist.points) >= 2
    /\ AgedBefore[1].t > TRAIL_GROW_AGE
    /\ AgedBefore[Len(AgedBefore)].t = TRAIL_GROW_AGE
    /\ hist.ret = 0

\* C10: the points of a trail are ordered oldest first: for i < j,
\* age[i] >= age[j].
C10_OldestFirst ==
    \A i \in 1 .. Len(trail_points) : \A j \in 1 .. Len(trail_points) :
        i < j => trail_points[i].t >= trail_points[j].t

\* a trail just trimmed of its oldest point, with points of different ages
\* left
C10_Witness ==
    /\ hist.op = "trail_update"
    /\ CutPoint > 1
    /\ Len(trail_points) >= 2
    /\ trail_points[1].t > trail_points[2].t

-----------------------------------------------------------------------------
(* A trail driven as its owner drives it: every step updates the trail    *)
(* with dt > 0, and the trail grows exactly when the update asked for it  *)

\* the regular update interval (2.01) and the irregular ones (0.01, 0.67, 2., 52.)
RegularDt == 201
JitterDts == {1, 67, 200, 5200}

\* the last call was an update that asked for a new point
GrowthAsked == hist.op = "trail_update" /\ hist.ret = 1

RegularUpdate == spfx_trail_update(RegularDt) /\ UNCHANGED ncalls

NextDriven ==
    \/ GrowthAsked /\ spfx_trail_grow(<<0, 0>>, 0)
    \/ ~GrowthAsked /\ RegularUpdate
    \/ \E dt \in JitterDts :
          ~GrowthAsked /\ Counted(MaxJitter) /\ spfx_trail_update(dt)

SpecDriven == InitTrail /\ [][NextDriven]_vars

\* C18: when every step calls spfx_trail_update with dt > 0 and
\* spfx_trail_grow exactly when the update returned 1, the trail never
\* holds more than TRAIL_MAX_AGE/TRAIL_GROW_AGE + 2 = 27 points.
C18_TrailBounded ==
    Len(trail_points) <= TRAIL_MAX_AGE \div TRAIL_GROW_AGE + 2

\* a trail of 26 points: 25 points not older than TRAIL_MAX_AGE, each made
\* just after its predecessor passed TRAIL_GROW_AGE, behind the outdated
\* point the trimming keeps
C18_Witness ==
    /\ hist.op = "trail_grow"
    /\ Len(trail_points) = TRAIL_MAX_AGE \div TRAIL_GROW_AGE + 1
    /\ trail_points[1].t > TRAIL_MAX_AGE
    /\ trail_points[2].t <= TRAIL_MAX_AGE

-----------------------------------------------------------------------------
(* The whole engine *)

Next ==
    \/ NextPool
    \/ NextRender
    \/ NextShake
    \/ NextHaptic
    \/ NextTrail
    \/ NextDriven

Spec == Init /\ [][Next]_vars

=============================================================================
